---- MODULE Spec2Model ----
(***************************************************************************)
(* Selection-and-batch-enrichment pipeline of the Discord idea bot:        *)
(*   - the "!paper select" handler (selection parsing and the batch loop), *)
(*   - the paper search handlers and ArxivService's cached result list,    *)
(*   - IdeaManager (the record store: ids, in-memory collection, the       *)
(*     rewritten ideas.json).                                              *)
(* Strings whose characters matter (selection expressions, record ids)     *)
(* are sequences of one-character strings.  Every await of a handler is a  *)
(* point where another handler's step can run; the code between two awaits *)
(* is one action.                                                          *)
(***************************************************************************)
EXTENDS Integers, Sequences, FiniteSets, TLC

\* ------------------------------------------------------------------ bounds
NumHandlers == 2
MaxMessages == 3
MaxPapers == 2
MaxTokens == 2
MaxRestarts == 1
NumChannels == 2
MaxChunks == 2
MaxWriteFailures == 1
MaxSeqAppends == 1001
MaxIdeas == 2
MaxTicks == 2
TickMs == 500
MaxLimit == 3
MaxRenders == 2
NumUsers == 2
MaxMjMessages == 4
MaxDocLen == 6
MaxChunkLen == 3
MaxTags == 2
MaxContentLen == 5
MaxTagged == 1

\* ----------------------------------------------------------- JS primitives
\* A parsed number is <<v>>; NaN is the empty tuple.
NaN == <<>>

isNaN(v) == v = NaN

NumOf(v) == v[1]

Digits == <<"0", "1", "2", "3", "4", "5", "6", "7", "8", "9">>

IsDigit(c) == \E d \in 1..10 : Digits[d] = c

DigitVal(c) == (CHOOSE d \in 1..10 : Digits[d] = c) - 1

\* Number.prototype.toString() of a non-negative integer.
RECURSIVE NumToString(_)
NumToString(n) ==
    IF n < 10 THEN <<Digits[n + 1]>>
    ELSE NumToString(n \div 10) \o <<Digits[(n % 10) + 1]>>

\* String.prototype.padStart(len, ch).
RECURSIVE padStart(_, _, _)
padStart(s, len, ch) ==
    IF Len(s) >= len THEN s ELSE padStart(<<ch>> \o s, len, ch)

\* Value of the longest digit prefix of s, continuing from acc; seen says
\* whether a digit was consumed.
RECURSIVE DigitPrefix(_, _, _)
DigitPrefix(s, acc, seen) ==
    IF s # <<>> /\ IsDigit(Head(s))
    THEN DigitPrefix(Tail(s), acc * 10 + DigitVal(Head(s)), TRUE)
    ELSE IF seen THEN <<acc>> ELSE NaN

\* parseInt(s) in radix 10: optional sign, then the longest digit prefix;
\* NaN when there is no digit.  (Callers pass trimmed text.)
parseInt(s) ==
    IF s # <<>> /\ Head(s) = "-"
    THEN LET v == DigitPrefix(Tail(s), 0, FALSE)
         IN IF isNaN(v) THEN NaN ELSE <<0 - NumOf(v)>>
    ELSE IF s # <<>> /\ Head(s) = "+" THEN DigitPrefix(Tail(s), 0, FALSE)
    ELSE DigitPrefix(s, 0, FALSE)

\* String.prototype.split on a set of separator characters.  greedy: a run of
\* separators counts as one (the regex /[,\s]+/); otherwise each separator
\* splits (the string "-").
RECURSIVE SplitFrom(_, _, _, _)
SplitFrom(s, seps, greedy, cur) ==
    IF s = <<>> THEN <<cur>>
    ELSE IF Head(s) \in seps
         THEN IF greedy /\ Tail(s) # <<>> /\ Head(Tail(s)) \in seps
              THEN SplitFrom(Tail(s), seps, greedy, cur)
              ELSE <<cur>> \o SplitFrom(Tail(s), seps, greedy, <<>>)
         ELSE SplitFrom(Tail(s), seps, greedy, Append(cur, Head(s)))

split(s, seps, greedy) == SplitFrom(s, seps, greedy, <<>>)

includes(s, c) == \E k \in 1..Len(s) : s[k] = c

\* [...new Set(xs)]: first occurrences, in insertion order.
RECURSIVE Dedupe(_)
Dedupe(xs) ==
    IF xs = <<>> THEN <<>>
    ELSE LET r == Dedupe(SubSeq(xs, 1, Len(xs) - 1))
             x == xs[Len(xs)]
         IN IF \E k \in 1..Len(r) : r[k] = x THEN r ELSE Append(r, x)

\* Array.prototype.sort((a, b) => a - b) of integers.
RECURSIVE SortAsc(_)
SortAsc(xs) ==
    IF xs = <<>> THEN <<>>
    ELSE LET m == CHOOSE k \in 1..Len(xs) :
                     \A j \in 1..Len(xs) : xs[k] < xs[j] \/ (xs[k] = xs[j] /\ k <= j)
         IN <<xs[m]>> \o SortAsc(SubSeq(xs, 1, m - 1) \o SubSeq(xs, m + 1, Len(xs)))

\* Variant: the range loop stops before end (i < end).
RECURSIVE RangeSeqExclusive(_, _)
RangeSeqExclusive(a, b) == IF a >= b THEN <<>> ELSE <<a>> \o RangeSeqExclusive(a + 1, b)

\* Variant: a range whose start is above its end is walked downwards.
RECURSIVE RangeSeqBothWays(_, _)
RangeSeqBothWays(a, b) ==
    IF a > b THEN <<a>> \o RangeSeqBothWays(a - 1, b)
    ELSE IF a = b THEN <<a>> ELSE <<a>> \o RangeSeqBothWays(a + 1, b)

\* for (let i = start; i <= end; i++) push(i)
RECURSIVE RangeSeq(_, _)
RangeSeq(a, b) == IF a > b THEN <<>> ELSE <<a>> \o RangeSeq(a + 1, b)

RECURSIVE Flatten(_)
Flatten(ss) == IF ss = <<>> THEN <<>> ELSE Head(ss) \o Flatten(Tail(ss))

\* ------------------------------------------------- selection parsing
\* The numbers one token pushes onto selectedNumbers.
PartNumbers(part) ==
    IF includes(part, "-")
    THEN LET ns == split(part, {"-"}, FALSE)
             start == parseInt(ns[1])
             end == parseInt(ns[2])
         IN IF ~isNaN(start) /\ ~isNaN(end)
            THEN RangeSeq(NumOf(start), NumOf(end)) ELSE <<>>
    ELSE LET num == parseInt(part)
         IN IF ~isNaN(num) THEN <<NumOf(num)>> ELSE <<>>

\* selectedNumbers after the loop over selections.split(/[,\s]+/).
SelectedNumbers(selections) ==
    LET parts == split(selections, {",", " "}, TRUE)
    IN Flatten([k \in 1..Len(parts) |-> PartNumbers(parts[k])])

\* Variant: the numbers are de-duplicated but left in typing order.
UniqueNumbersUnsorted(selectedNumbers) == Dedupe(selectedNumbers)

\* [...new Set(selectedNumbers)].sort((a, b) => a - b)
UniqueNumbers(selectedNumbers) == SortAsc(Dedupe(selectedNumbers))

\* Variant: the filter checks the upper end only.
InBoundsUpperOnly(num, count) == num <= count

\* The filter predicate over uniqueNumbers; count is
\* lastPaperSearch?.papers.length || 0.
InBounds(num, count) == num >= 1 /\ num <= count

\* uniqueNumbers.filter(num => ...).
RECURSIVE FilterInBounds(_, _)
FilterInBounds(xs, count) ==
    IF xs = <<>> THEN <<>>
    ELSE (IF InBounds(Head(xs), count) THEN <<Head(xs)>> ELSE <<>>)
         \o FilterInBounds(Tail(xs), count)

\* validNumbers for a search result list of length count.
ValidNumbers(selections, count) ==
    FilterInBounds(UniqueNumbers(SelectedNumbers(selections)), count)

\* ------------------------------------------------------- record ids
\* Variant: the id keeps a fixed width of three digits (the last three).
getNextIdFixedWidth(coll) ==
    LET nextNumber == IF coll # <<>> THEN NumOf(parseInt(coll[Len(coll)].id)) + 1 ELSE 1
        padded == padStart(NumToString(nextNumber), 3, "0")
    IN SubSeq(padded, Len(padded) - 2, Len(padded))

\* IdeaManager.getNextId over the in-memory collection.
getNextId(coll) ==
    LET nextNumber == IF coll # <<>> THEN NumOf(parseInt(coll[Len(coll)].id)) + 1 ELSE 1
    IN padStart(NumToString(nextNumber), 3, "0")

\* -------------------------------------------------------------- inputs
\* Tokens a user types between commas in "!paper select ...".
Tokens ==
    { <<"1">>, <<"2">>, <<"3">>, <<"0">>, <<"7">>,
      <<"1", "-", "2">>, <<"2", "-", "3">>, <<"3", "-", "1">>,
      <<"a">>, <<"2", "a">>, <<"1", "-", "a">>, <<"-", "1">>, <<>> }

RECURSIVE JoinComma(_)
JoinComma(ts) ==
    IF ts = <<>> THEN <<>>
    ELSE IF Len(ts) = 1 THEN ts[1]
    ELSE ts[1] \o <<",">> \o JoinComma(Tail(ts))

\* args.slice(1).join(' ') for the select sub-command.
Exprs ==
    { JoinComma(ts) : ts \in UNION { [1..k -> Tokens] : k \in 0..MaxTokens } }

\* The expressions used where several handlers interleave: the selections a
\* short result list admits, and the failing shapes.
BatchExprs ==
    { <<>>, <<"a">>, <<"0", ",", "7">>,
      <<"1">>, <<"2">>, <<"3">>, <<"1", "-", "2">>, <<"2", "-", "3">>,
      <<"2", ",", "1">> }

Handlers == 1..NumHandlers
Users == 1..NumUsers
Channels == 1..NumChannels

\* The list one arXiv query returns: len papers, told apart by the query (gen).
PaperList(gen, len) == [j \in 1..len |-> [gen |-> gen, pos |-> j]]

\* ---------------------------------------------------------------- state
VARIABLES
    ideas,            \* IdeaManager.ideas
    disk,             \* the array stored in data/ideas.json
    searchResults,    \* ArxivService.searchResults
    lastPaperSearch,  \* index.ts lastPaperSearch: <<>> (null) or <<[channelId, papers]>>
    h,                \* the running messageCreate handlers
    msgs,             \* messages received so far
    restarts,         \* process restarts so far
    issued,           \* every id getNextId has handed out, in order (history)
    writeFailures,    \* writeFileSync calls that have thrown so far
    loadError,        \* the last loadIdeas caught (and logged) an error
    listed,           \* the last getRecentIdeas call: <<>> or <<[limit, channel, result]>>
    rendered,         \* the generatePaperMarkdown calls made, with their texts
    storeCall,        \* the last updateIdea / getIdeaById / getStats call: <<>> or <<call>>
    chunked,          \* the last splitMarkdown call: <<>> or <<[markdown, maxLength, chunks]>>
    imagePromptData,  \* the imagePromptData Map: per user <<>> or <<pending request>>
    timers,           \* the pending 30 s timeouts, in the order they were set
    mj,               \* the running midjourney-channel handlers
    mjMsgs            \* midjourney-channel messages received so far

\* What the store reports and the renderer and the splitter produce.
storeOut == <<loadError, listed, rendered, storeCall, chunked>>

\* State of the midjourney channel.
mjVars == <<imagePromptData, timers, mj, mjMsgs>>

vars ==
    <<ideas, disk, searchResults, lastPaperSearch, h, msgs, restarts, issued,
      writeFailures, loadError, listed, rendered, storeCall, chunked,
      imagePromptData, timers, mj, mjMsgs>>

NoPaper == <<>>

\* A handler slot with no message.  enriched, appended and validated are
\* history: the positions summarizePaper was called for, the ids of the
\* records the batch appended, the list the selection was validated against.
Idle ==
    [ pc |-> "idle", channel |-> 0, query |-> 0,
      selections |-> <<>>, count |-> 0,
      validNumbers |-> <<>>, i |-> 0, selectedPaper |-> NoPaper,
      successfulPapers |-> <<>>, failedPapers |-> <<>>,
      newIdea |-> 0, chunks |-> 0,
      enriched |-> <<>>, appended |-> <<>>, validated |-> <<>> ]

\* State after the module is loaded with no data/ideas.json: the constructor's
\* loadIdeas writes the empty array.
Init ==
    /\ ideas = <<>>
    /\ disk = <<>>
    /\ searchResults = <<>>
    /\ lastPaperSearch = <<>>
    /\ h = [p \in Handlers |-> Idle]
    /\ msgs = 0
    /\ restarts = 0
    /\ issued = <<>>
    /\ writeFailures = 0
    /\ loadError = FALSE
    /\ listed = <<>>
    /\ rendered = <<>>
    /\ storeCall = <<>>
    /\ chunked = <<>>
    /\ imagePromptData = [u \in Users |-> <<>>]
    /\ timers = <<>>
    /\ mj = {}
    /\ mjMsgs = 0

\* A message is handled in the lowest free slot (slots are interchangeable).
FreeSlot(p) ==
    /\ h[p].pc = "idle"
    /\ \A q \in Handlers : q < p => h[q].pc # "idle"
    /\ msgs < MaxMessages

Finish(p) == h' = [h EXCEPT ![p] = Idle]

\* ------------------------------------------------------ the record store
\* saveIdeas: writeFileSync replaces the file, or throws and the error is
\* logged and swallowed.
saveIdeas(coll, written) == IF written THEN coll ELSE disk

\* The outcomes writeFileSync can have at this point.
WriteOutcomes == IF writeFailures < MaxWriteFailures THEN BOOLEAN ELSE {TRUE}

CountWrite(written) == writeFailures' = IF written THEN writeFailures ELSE writeFailures + 1

\* Variant: the record is pushed with its filePath already assigned.
NewIdeaWithPath(coll, type) == [id |-> getNextId(coll), type |-> type, filePath |-> TRUE]

\* The record pushed by addIdea / addPaperIdea (fields the store logic uses).
NewIdea(coll, type) == [id |-> getNextId(coll), type |-> type, filePath |-> FALSE]

\* ------------------------------------------------ "!paper select" handler
\* ArxivService.getSearchResult(index): the cached paper or null.
getSearchResult(index) ==
    IF index >= 0 /\ index < Len(searchResults) THEN searchResults[index + 1] ELSE NoPaper

FailedSelect(num) == [num |-> num, paper |-> NoPaper, error |-> "select"]
FailedSummary(num, paper) == [num |-> num, paper |-> paper, error |-> "summary"]

\* The batch loop from index hr.i up to its next await: positions whose paper
\* does not resolve are pushed onto failedPapers and skipped (continue); the
\* first resolvable one awaits the progress edit; past the end the result
\* embed is built and its edit awaited.
RECURSIVE Iterate(_)
Iterate(hr) ==
    IF hr.i < Len(hr.validNumbers)
    THEN LET num == hr.validNumbers[hr.i + 1]
             selectedPaper == getSearchResult(num - 1)
         IN IF selectedPaper = NoPaper
            THEN Iterate([hr EXCEPT !.failedPapers = Append(@, FailedSelect(num)),
                                    !.i = @ + 1])
            ELSE [hr EXCEPT !.selectedPaper = selectedPaper, !.pc = "progressEdit"]
    ELSE [hr EXCEPT !.selectedPaper = NoPaper, !.pc = "resultEdit"]

\* The tail of one loop iteration: the 1 s pause unless this was the last
\* position, then i++.
AfterItem(hr) ==
    IF hr.i < Len(hr.validNumbers) - 1
    THEN [hr EXCEPT !.pc = "delay"]
    ELSE Iterate([hr EXCEPT !.i = @ + 1])

\* Variant: the catch block records the failure and leaves the loop.
CatchItemBreak(hr) ==
    [hr EXCEPT !.failedPapers =
                   Append(@, FailedSummary(hr.validNumbers[hr.i + 1], hr.selectedPaper)),
               !.selectedPaper = NoPaper, !.pc = "resultEdit"]

\* Variant: the catch block logs the error and records nothing.
CatchItemNoRecord(hr) == AfterItem(hr)

\* Variant: the catch block records the failure and tries the position again.
CatchItemRetry(hr) ==
    [hr EXCEPT !.failedPapers =
                   Append(@, FailedSummary(hr.validNumbers[hr.i + 1], hr.selectedPaper)),
               !.pc = "progressEdit"]

\* The catch block of one iteration.
CatchItem(hr) ==
    AfterItem([hr EXCEPT !.failedPapers =
                   Append(@, FailedSummary(hr.validNumbers[hr.i + 1], hr.selectedPaper))])

\* The result embed built after the loop: the two counts, then the saved
\* papers (the first in detail, the others as a list) in successfulPapers
\* order; failures appear as a count only.
resultEmbed(hr) ==
    [ success |-> Len(hr.successfulPapers),
      failed |-> Len(hr.failedPapers),
      saved |-> [k \in 1..Len(hr.successfulPapers) |-> hr.successfulPapers[k].num] ]

\* "!paper select <selections>" in a text channel, up to its first await.
SelectCommand(p, c, selections) ==
    /\ FreeSlot(p)
    /\ msgs' = msgs + 1
    /\ h' = [h EXCEPT ![p] =
            IF selections = <<>>
            THEN [Idle EXCEPT !.pc = "replyUsage"]
            ELSE IF lastPaperSearch = <<>> \/ lastPaperSearch[1].channelId # c
            THEN [Idle EXCEPT !.pc = "replyNeedSearch"]
            ELSE LET count == Len(lastPaperSearch[1].papers)
                     validNumbers == ValidNumbers(selections, count)
                 IN IF Len(validNumbers) = 0
                    THEN [Idle EXCEPT !.pc = "replyNoSelection",
                                      !.selections = selections, !.count = count]
                    ELSE [Idle EXCEPT !.pc = "processingSend",
                                      !.selections = selections, !.count = count,
                                      !.validNumbers = validNumbers,
                                      !.validated = lastPaperSearch[1].papers]]
    /\ UNCHANGED <<ideas, disk, searchResults, lastPaperSearch, restarts, issued, writeFailures, storeOut,
                   mjVars>>

\* message.channel.send(processingEmbed) settles; the loop starts.
ProcessingSent(p, ok) ==
    /\ h[p].pc = "processingSend"
    /\ IF ok
       THEN h' = [h EXCEPT ![p] = Iterate([h[p] EXCEPT !.selections = <<>>, !.i = 0])]
       ELSE Finish(p)
    /\ UNCHANGED <<ideas, disk, searchResults, lastPaperSearch, msgs, restarts, issued, writeFailures, storeOut,
                   mjVars>>

\* processingMsg.edit(progressEmbed) settles; summarizePaper is called.
ProgressEdited(p, ok) ==
    /\ h[p].pc = "progressEdit"
    /\ IF ok
       THEN h' = [h EXCEPT ![p] =
                [h[p] EXCEPT !.pc = "summarize",
                             !.enriched = Append(@, h[p].validNumbers[h[p].i + 1])]]
       ELSE Finish(p)
    /\ UNCHANGED <<ideas, disk, searchResults, lastPaperSearch, msgs, restarts, issued, writeFailures, storeOut,
                   mjVars>>

\* summarizePaper resolves: addPaperIdea runs to its first await (getNextId,
\* push, saveIdeas, savePaperToObsidian called).
Summarized(p, written) ==
    /\ h[p].pc = "summarize"
    /\ LET newIdea == NewIdea(ideas, "paper")
       IN /\ ideas' = Append(ideas, newIdea)
          /\ disk' = saveIdeas(ideas', written)
          /\ CountWrite(written)
          /\ issued' = Append(issued, newIdea.id)
          /\ h' = [h EXCEPT ![p] =
                  [h[p] EXCEPT !.pc = "paperObsidian",
                               !.newIdea = Len(ideas) + 1,
                               !.appended = Append(@, newIdea.id)]]
    /\ UNCHANGED <<searchResults, lastPaperSearch, msgs, restarts, storeOut, mjVars>>

\* summarizePaper rejects (or published.toISOString() throws): the catch block.
SummarizeFailed(p) ==
    /\ h[p].pc = "summarize"
    /\ h' = [h EXCEPT ![p] = CatchItem(h[p])]
    /\ UNCHANGED <<ideas, disk, searchResults, lastPaperSearch, msgs, restarts, issued, writeFailures, storeOut,
                   mjVars>>

\* savePaperToObsidian resolves inside addPaperIdea: filePath is set and the
\* collection saved again; addPaperIdea returns and getObsidianVaultChannel
\* is awaited.
PaperObsidianSaved(p, written) ==
    /\ h[p].pc = "paperObsidian"
    /\ ideas' = [ideas EXCEPT ![h[p].newIdea].filePath = TRUE]
    /\ disk' = saveIdeas(ideas', written)
    /\ CountWrite(written)
    /\ h' = [h EXCEPT ![p] = [h[p] EXCEPT !.pc = "vaultChannel"]]
    /\ UNCHANGED <<searchResults, lastPaperSearch, msgs, restarts, issued, storeOut, mjVars>>

\* savePaperToObsidian rejects: addPaperIdea logs it and returns the record.
PaperObsidianFailed(p) ==
    /\ h[p].pc = "paperObsidian"
    /\ h' = [h EXCEPT ![p] = [h[p] EXCEPT !.pc = "vaultChannel"]]
    /\ UNCHANGED <<ideas, disk, searchResults, lastPaperSearch, msgs, restarts, issued, writeFailures, storeOut,
                   mjVars>>

\* getObsidianVaultChannel resolves; the markdown is cut into n chunks (1 when
\* it fits one message) and the first send is awaited.
VaultChannelFound(p, n) ==
    /\ h[p].pc = "vaultChannel"
    /\ h' = [h EXCEPT ![p] = [h[p] EXCEPT !.pc = "vaultSend", !.chunks = n]]
    /\ UNCHANGED <<ideas, disk, searchResults, lastPaperSearch, msgs, restarts, issued, writeFailures, storeOut,
                   mjVars>>

\* getObsidianVaultChannel rejects: the catch block.
VaultChannelFailed(p) ==
    /\ h[p].pc = "vaultChannel"
    /\ h' = [h EXCEPT ![p] = CatchItem(h[p])]
    /\ UNCHANGED <<ideas, disk, searchResults, lastPaperSearch, msgs, restarts, issued, writeFailures, storeOut,
                   mjVars>>

\* One vaultChannel.send settles.
VaultSent(p, ok) ==
    /\ h[p].pc = "vaultSend"
    /\ h' = [h EXCEPT ![p] =
            IF ~ok THEN CatchItem([h[p] EXCEPT !.chunks = 0])
            ELSE IF h[p].chunks > 1 THEN [h[p] EXCEPT !.chunks = @ - 1]
            ELSE AfterItem([h[p] EXCEPT
                    !.chunks = 0,
                    !.successfulPapers =
                        Append(@, [num |-> h[p].validNumbers[h[p].i + 1],
                                   paper |-> h[p].selectedPaper,
                                   idea |-> ideas[h[p].newIdea].id])])]
    /\ UNCHANGED <<ideas, disk, searchResults, lastPaperSearch, msgs, restarts, issued, writeFailures, storeOut,
                   mjVars>>

\* The 1 s timer between two positions fires.
Delayed(p) ==
    /\ h[p].pc = "delay"
    /\ h' = [h EXCEPT ![p] = Iterate([h[p] EXCEPT !.i = @ + 1])]
    /\ UNCHANGED <<ideas, disk, searchResults, lastPaperSearch, msgs, restarts, issued, writeFailures, storeOut,
                   mjVars>>

\* processingMsg.edit(resultEmbed) settles; message.react is awaited.
ResultEdited(p, ok) ==
    /\ h[p].pc = "resultEdit"
    /\ IF ok THEN h' = [h EXCEPT ![p] = [h[p] EXCEPT !.pc = "react"]] ELSE Finish(p)
    /\ UNCHANGED <<ideas, disk, searchResults, lastPaperSearch, msgs, restarts, issued, writeFailures, storeOut,
                   mjVars>>

\* The last await of a handler settles (a reply, a send, a reaction).
Replied(p) ==
    /\ h[p].pc \in {"react", "reply", "replyUsage", "replyNeedSearch", "replyNoSelection"}
    /\ Finish(p)
    /\ UNCHANGED <<ideas, disk, searchResults, lastPaperSearch, msgs, restarts, issued, writeFailures, storeOut,
                   mjVars>>

\* ----------------------------------------------------- search handlers
\* "!paper <category>" or "!paper <free text>" up to its first await (the
\* "searching..." send; the free search also awaits the query translation,
\* which touches no shared state).
SearchCommand(p, c) ==
    /\ FreeSlot(p)
    /\ msgs' = msgs + 1
    /\ h' = [h EXCEPT ![p] = [Idle EXCEPT !.pc = "searchSend", !.channel = c,
                                          !.query = msgs + 1]]
    /\ UNCHANGED <<ideas, disk, searchResults, lastPaperSearch, restarts, issued, writeFailures, storeOut,
                   mjVars>>

\* The send settles; arxivService.searchPapers awaits the HTTP request.
SearchSent(p, ok) ==
    /\ h[p].pc = "searchSend"
    /\ IF ok THEN h' = [h EXCEPT ![p] = [h[p] EXCEPT !.pc = "searchPapers"]] ELSE Finish(p)
    /\ UNCHANGED <<ideas, disk, searchResults, lastPaperSearch, msgs, restarts, issued, writeFailures, storeOut,
                   mjVars>>

\* searchPapers resolves with len papers: the service caches them; the handler
\* records them as lastPaperSearch unless the list is empty.
SearchFound(p, len) ==
    /\ h[p].pc = "searchPapers"
    /\ LET papers == PaperList(h[p].query, len)
       IN /\ searchResults' = papers
          /\ lastPaperSearch' =
                IF Len(papers) = 0 THEN lastPaperSearch
                ELSE <<[channelId |-> h[p].channel, papers |-> papers]>>
    /\ h' = [h EXCEPT ![p] = [Idle EXCEPT !.pc = "reply"]]
    /\ UNCHANGED <<ideas, disk, msgs, restarts, issued, writeFailures, storeOut, mjVars>>

\* The request or the XML parse throws: searchPapers rethrows, the handler
\* reports the error.
SearchFailed(p) ==
    /\ h[p].pc = "searchPapers"
    /\ h' = [h EXCEPT ![p] = [Idle EXCEPT !.pc = "reply"]]
    /\ UNCHANGED <<ideas, disk, searchResults, lastPaperSearch, msgs, restarts, issued, writeFailures, storeOut,
                   mjVars>>

\* ------------------------------------------------ text message handler
\* A text message in a monitored channel: message.react is awaited.  (Voice
\* and article messages reach the store through the same push-and-save code.)
TextMessage(p) ==
    /\ FreeSlot(p)
    /\ msgs' = msgs + 1
    /\ h' = [h EXCEPT ![p] = [Idle EXCEPT !.pc = "textReact"]]
    /\ UNCHANGED <<ideas, disk, searchResults, lastPaperSearch, restarts, issued, writeFailures, storeOut,
                   mjVars>>

\* The reaction resolves: addIdea runs to its first await (getNextId, push,
\* saveIdeas, saveIdeaToObsidian called).
AddIdea(p, written) ==
    /\ h[p].pc = "textReact"
    /\ LET newIdea == NewIdea(ideas, "text")
       IN /\ ideas' = Append(ideas, newIdea)
          /\ disk' = saveIdeas(ideas', written)
          /\ CountWrite(written)
          /\ issued' = Append(issued, newIdea.id)
          /\ h' = [h EXCEPT ![p] = [h[p] EXCEPT !.pc = "textObsidian",
                                                !.newIdea = Len(ideas) + 1]]
    /\ UNCHANGED <<searchResults, lastPaperSearch, msgs, restarts, storeOut, mjVars>>

\* The reaction rejects: messageCreate's catch reacts with the cross.
TextReactFailed(p) ==
    /\ h[p].pc = "textReact"
    /\ h' = [h EXCEPT ![p] = [Idle EXCEPT !.pc = "reply"]]
    /\ UNCHANGED <<ideas, disk, searchResults, lastPaperSearch, msgs, restarts, issued, writeFailures, storeOut,
                   mjVars>>

\* saveIdeaToObsidian resolves inside addIdea: filePath, second saveIdeas; the
\* vault post and the reply follow.
IdeaObsidianSaved(p, written) ==
    /\ h[p].pc = "textObsidian"
    /\ ideas' = [ideas EXCEPT ![h[p].newIdea].filePath = TRUE]
    /\ disk' = saveIdeas(ideas', written)
    /\ CountWrite(written)
    /\ h' = [h EXCEPT ![p] = [Idle EXCEPT !.pc = "reply"]]
    /\ UNCHANGED <<searchResults, lastPaperSearch, msgs, restarts, issued, storeOut, mjVars>>

\* saveIdeaToObsidian rejects: logged, the record is returned as it is.
IdeaObsidianFailed(p) ==
    /\ h[p].pc = "textObsidian"
    /\ h' = [h EXCEPT ![p] = [Idle EXCEPT !.pc = "reply"]]
    /\ UNCHANGED <<ideas, disk, searchResults, lastPaperSearch, msgs, restarts, issued, writeFailures, storeOut,
                   mjVars>>

\* ------------------------------------------------------------ readers
\* "!list" / "!stats": getRecentIdeas / getStats read ideas synchronously,
\* then the reply is awaited.
ListCommand(p) ==
    /\ FreeSlot(p)
    /\ msgs' = msgs + 1
    /\ h' = [h EXCEPT ![p] = [Idle EXCEPT !.pc = "reply"]]
    /\ UNCHANGED <<ideas, disk, searchResults, lastPaperSearch, restarts, issued, writeFailures, storeOut,
                   mjVars>>

\* ------------------------------------------------------------ restart
\* The process ends and starts again: handlers and module state are gone,
\* loadIdeas reads data/ideas.json (or starts empty when reading throws).
Restart(loaded) ==
    /\ restarts < MaxRestarts
    /\ restarts' = restarts + 1
    /\ ideas' = IF loaded THEN disk ELSE <<>>
    /\ searchResults' = <<>>
    /\ lastPaperSearch' = <<>>
    /\ h' = [p \in Handlers |-> Idle]
    /\ loadError' = ~loaded
    /\ UNCHANGED <<disk, msgs, issued, writeFailures, listed, rendered, storeCall, chunked, mjVars>>

\* ---------------------------------------------------------------- spec
\* A message arrives and its handler runs to its first await.
Receive(p, exprs) ==
    \/ \E c \in Channels, e \in exprs : SelectCommand(p, c, e)
    \/ \E c \in Channels : SearchCommand(p, c)
    \/ TextMessage(p)
    \/ ListCommand(p)

\* An awaited call of handler p settles and the handler runs to its next await.
Resume(p) ==
    \/ \E ok \in BOOLEAN : ProcessingSent(p, ok)
    \/ \E ok \in BOOLEAN : ProgressEdited(p, ok)
    \/ \E written \in WriteOutcomes : Summarized(p, written)
    \/ SummarizeFailed(p)
    \/ \E written \in WriteOutcomes : PaperObsidianSaved(p, written)
    \/ PaperObsidianFailed(p)
    \/ \E n \in 1..MaxChunks : VaultChannelFound(p, n)
    \/ VaultChannelFailed(p)
    \/ \E ok \in BOOLEAN : VaultSent(p, ok)
    \/ Delayed(p)
    \/ \E ok \in BOOLEAN : ResultEdited(p, ok)
    \/ Replied(p)
    \/ \E ok \in BOOLEAN : SearchSent(p, ok)
    \/ \E len \in 0..MaxPapers : SearchFound(p, len)
    \/ SearchFailed(p)
    \/ \E written \in WriteOutcomes : AddIdea(p, written)
    \/ TextReactFailed(p)
    \/ \E written \in WriteOutcomes : IdeaObsidianSaved(p, written)
    \/ IdeaObsidianFailed(p)

Next ==
    \/ \E p \in Handlers : Receive(p, BatchExprs)
    \/ \E p \in Handlers : Resume(p)
    \/ \E loaded \in BOOLEAN : Restart(loaded)

Spec == Init /\ [][Next]_vars

\* One handler at a time, every selection expression of up to MaxTokens tokens.
NextParse ==
    \/ Receive(1, Exprs)
    \/ Resume(1)
    \/ \E loaded \in BOOLEAN : Restart(loaded)

SpecParse == Init /\ [][NextParse]_vars

\* addIdea called MaxSeqAppends times in a row on the empty store, each call
\* running to its return (both writes and the Obsidian save succeed) before
\* the next starts.
SequentialAppend ==
    /\ Len(ideas) < MaxSeqAppends
    /\ LET newIdea == NewIdea(ideas, "text")
       IN /\ ideas' = Append(ideas, [newIdea EXCEPT !.filePath = TRUE])
          /\ disk' = saveIdeas(ideas', TRUE)
          /\ issued' = Append(issued, newIdea.id)
    /\ UNCHANGED <<searchResults, lastPaperSearch, h, msgs, restarts, writeFailures, storeOut,
                   mjVars>>

SpecAppend == Init /\ [][SequentialAppend]_vars

\* ------------------------------------- the record store, field by field
\* Records as IdeaManager builds them, with the fields whose JavaScript type
\* or presence varies: createdAt (a Date in a new record), filePath (set
\* once the Obsidian file is written), articleData.author (undefined when the
\* page names no author).  Values of such fields carry their type.
undefined == [t |-> "undefined"]

\* new Date() at the clock reading ms.
NewDate(ms) == [t |-> "Date", ms |-> ms]

Str(s) == [t |-> "string", s |-> s]

\* idea.channel values and the clock readings (ms) of new Date().
ChannelNames == {"ideas", "papers"}
Times == { TickMs * k : k \in 0..MaxTicks }

\* Date.prototype.toISOString: the seconds and milliseconds "ss.sssZ" (date,
\* hour and minute are the same for every reading in Times).
toISOString(d) ==
    padStart(NumToString(d.ms \div 1000), 2, "0") \o <<".">>
        \o padStart(NumToString(d.ms % 1000), 3, "0") \o <<"Z">>

\* new Date(v).getTime() for a Date or an ISO string.
getTime(v) ==
    IF v.t = "Date" THEN v.ms
    ELSE NumOf(parseInt(SubSeq(v.s, 1, 2))) * 1000 + NumOf(parseInt(SubSeq(v.s, 4, 6)))

\* A JSON document: strings and objects with their members in order.
JString(s) == [j |-> "string", v |-> s]
JObject(members) == [j |-> "object", members |-> members]

\* Property order of the object literals in addIdea / addArticleIdea.
IdeaKeys == <<"id", "channel", "type", "createdAt", "articleData", "filePath">>
ArticleKeys == <<"url", "author">>
Optional == {"author", "filePath"}

\* JSON.stringify of one property value: a Date through toJSON (toISOString),
\* an object member by member, a string as it is.
RECURSIVE JSONmembers(_, _)
JSONvalue(key, v) ==
    IF key = "createdAt" THEN JString(IF v.t = "Date" THEN toISOString(v) ELSE v.s)
    ELSE IF key = "articleData" THEN JObject(JSONmembers(v, ArticleKeys))
    ELSE IF key \in Optional THEN JString(v.s)
    ELSE JString(v)

\* The members JSON.stringify writes for obj: own properties in order, those
\* whose value is undefined left out.
JSONmembers(obj, keys) ==
    IF keys = <<>> THEN <<>>
    ELSE LET key == Head(keys)
             rest == JSONmembers(obj, Tail(keys))
         IN IF key \notin DOMAIN obj \/ (key \in Optional /\ obj[key] = undefined)
            THEN rest
            ELSE <<[key |-> key, value |-> JSONvalue(key, obj[key])]>> \o rest

\* JSON.stringify(this.ideas, null, 2).
JSONstringify(coll) == [k \in 1..Len(coll) |-> JObject(JSONmembers(coll[k], IdeaKeys))]

\* JSON.parse of one object: a plain object with the members' keys; every
\* string stays a string.
RECURSIVE JSONobject(_)
JSONrevive(key, jv) ==
    IF jv.j = "object" THEN JSONobject(jv.members)
    ELSE IF key = "createdAt" \/ key \in Optional THEN Str(jv.v)
    ELSE jv.v

JSONobject(members) ==
    [key \in { members[k].key : k \in 1..Len(members) } |->
        LET k == CHOOSE k \in 1..Len(members) : members[k].key = key
        IN JSONrevive(key, members[k].value)]

\* JSON.parse(data) of a document written by saveIdeas.
JSONparse(doc) == [k \in 1..Len(doc) |-> JSONobject(doc[k].members)]

\* What loadIdeas finds: the file is read and parsed, there is no file (an
\* empty one is written), or mkdirSync / readFileSync / JSON.parse throws.
LoadOutcomes == {"read", "created", "threw"}

\* Variant: the catch block of loadIdeas logs the error and leaves this.ideas
\* as it was assigned.
loadIdeasNoReset(outcome) == IF outcome = "created" THEN <<>> ELSE JSONparse(disk)

\* this.ideas after loadIdeas.
loadIdeas(outcome) == IF outcome = "read" THEN JSONparse(disk) ELSE <<>>

\* Variant: the comparator is a - b (oldest first).
RECURSIVE sortOldestFirst(_)
sortOldestFirst(xs) ==
    IF xs = <<>> THEN <<>>
    ELSE LET m == CHOOSE k \in 1..Len(xs) :
                     \A j \in 1..Len(xs) :
                         \/ getTime(xs[k].createdAt) < getTime(xs[j].createdAt)
                         \/ (getTime(xs[k].createdAt) = getTime(xs[j].createdAt) /\ k <= j)
         IN <<xs[m]>> \o sortOldestFirst(SubSeq(xs, 1, m - 1) \o SubSeq(xs, m + 1, Len(xs)))

\* .sort((a, b) => new Date(b.createdAt).getTime() - new Date(a.createdAt).getTime()):
\* newest first, records of equal time in their array order (the sort is stable).
RECURSIVE sortNewestFirst(_)
sortNewestFirst(xs) ==
    IF xs = <<>> THEN <<>>
    ELSE LET m == CHOOSE k \in 1..Len(xs) :
                     \A j \in 1..Len(xs) :
                         \/ getTime(xs[k].createdAt) > getTime(xs[j].createdAt)
                         \/ (getTime(xs[k].createdAt) = getTime(xs[j].createdAt) /\ k <= j)
         IN <<xs[m]>> \o sortNewestFirst(SubSeq(xs, 1, m - 1) \o SubSeq(xs, m + 1, Len(xs)))

\* Array.prototype.slice(start, end) for 0 <= start <= end.
slice(xs, start, end) ==
    SubSeq(xs, start + 1, IF end < Len(xs) THEN end ELSE Len(xs))

\* IdeaManager.getRecentIdeas(limit, channel); channel "" stands for an
\* absent (falsy) filter.
getRecentIdeas(limit, channel) ==
    LET filtered == IF channel # ""
                    THEN SelectSeq(ideas, LAMBDA idea : idea.channel = channel)
                    ELSE ideas
    IN slice(sortNewestFirst(filtered), 0, limit)

\* addIdea run to its return: the record is pushed and saved, then the
\* Obsidian file is written (filed) and the path saved, or that fails.
StoreAddIdea(channel, now, filed) ==
    /\ Len(ideas) < MaxIdeas
    /\ LET newIdea == [id |-> getNextId(ideas), channel |-> channel, type |-> "text",
                       createdAt |-> NewDate(now)]
       IN ideas' = Append(ideas, IF filed THEN newIdea @@ ("filePath" :> Str("md"))
                                          ELSE newIdea)
    /\ disk' = JSONstringify(ideas')
    /\ UNCHANGED <<searchResults, lastPaperSearch, h, msgs, restarts, issued,
                   writeFailures, storeOut, mjVars>>

\* addArticleIdea run to its return; author is articleData.author.
StoreAddArticle(channel, now, author, filed) ==
    /\ Len(ideas) < MaxIdeas
    /\ LET newIdea == [id |-> getNextId(ideas), channel |-> channel, type |-> "article",
                       createdAt |-> NewDate(now),
                       articleData |-> [url |-> "url", author |-> author]]
       IN ideas' = Append(ideas, IF filed THEN newIdea @@ ("filePath" :> Str("md"))
                                          ELSE newIdea)
    /\ disk' = JSONstringify(ideas')
    /\ UNCHANGED <<searchResults, lastPaperSearch, h, msgs, restarts, issued,
                   writeFailures, storeOut, mjVars>>

\* The process starts again: new IdeaManager() runs loadIdeas.
StoreStart(outcome) ==
    /\ restarts < MaxRestarts
    /\ restarts' = restarts + 1
    /\ ideas' = loadIdeas(outcome)
    /\ disk' = IF outcome = "created" THEN JSONstringify(<<>>) ELSE disk
    /\ loadError' = (outcome = "threw")
    /\ listed' = <<>>
    /\ UNCHANGED <<searchResults, lastPaperSearch, h, msgs, issued, writeFailures, rendered, storeCall, chunked,
                   mjVars>>

\* Variant: getRecentIdeas sorts this.ideas itself when there is no filter
\* (let filtered = this.ideas).
getRecentIdeasNoCopy(limit, channel) ==
    IF channel # "" THEN ideas ELSE sortNewestFirst(ideas)

\* this.ideas once getRecentIdeas has returned: sort() reorders the array it
\* is called on, which is the copy [...this.ideas] or the array filter() made.
getRecentIdeasEffect(limit, channel) == ideas

\* A caller asks for the most recent records.
StoreList(limit, channel) ==
    /\ listed' = <<[limit |-> limit, channel |-> channel,
                    result |-> getRecentIdeas(limit, channel)]>>
    /\ ideas' = getRecentIdeasEffect(limit, channel)
    /\ UNCHANGED <<disk, searchResults, lastPaperSearch, h, msgs, restarts, issued,
                   writeFailures, loadError, rendered, storeCall, chunked, mjVars>>

\* Array.prototype.findIndex on the ids: the 0-based index or -1.
findIndex(coll, id) ==
    IF \E k \in 1..Len(coll) : coll[k].id = id
    THEN (CHOOSE k \in 1..Len(coll) :
              coll[k].id = id /\ \A j \in 1..(k - 1) : coll[j].id # id) - 1
    ELSE -1

\* Variant: a record whose id is not found is added to the collection.
updateIdeaUpsert(idea) ==
    LET index == findIndex(ideas, idea.id)
        updated == IF index # -1 THEN [ideas EXCEPT ![index + 1] = idea]
                   ELSE Append(ideas, idea)
    IN [ideas |-> updated, disk |-> JSONstringify(updated)]

\* IdeaManager.updateIdea(idea): this.ideas and the file afterwards.
updateIdea(idea) ==
    LET index == findIndex(ideas, idea.id)
    IN IF index # -1
       THEN LET updated == [ideas EXCEPT ![index + 1] = idea]
            IN [ideas |-> updated, disk |-> JSONstringify(updated)]
       ELSE [ideas |-> ideas, disk |-> disk]

\* IdeaManager.getIdeaById(id): the first record with the id or undefined.
getIdeaById(id) ==
    LET index == findIndex(ideas, id)
    IN IF index # -1 THEN ideas[index + 1] ELSE undefined

\* IdeaManager.getStats(): the counters the loop fills (no voice or paper
\* record is made here).
getStats ==
    [ total |-> Len(ideas),
      text |-> Cardinality({ k \in 1..Len(ideas) : ideas[k].type = "text" }),
      article |-> Cardinality({ k \in 1..Len(ideas) : ideas[k].type = "article" }),
      byChannel |-> [ c \in { ideas[k].channel : k \in 1..Len(ideas) } |->
                        Cardinality({ k \in 1..Len(ideas) : ideas[k].channel = c }) ] ]

\* The ids a caller may name: those of MaxIdeas records and the next one.
CallIds == { padStart(NumToString(k), 3, "0") : k \in 1..(MaxIdeas + 1) }

\* A caller replaces the record that has idea's id.
StoreUpdate(idea) ==
    /\ ideas' = updateIdea(idea).ideas
    /\ disk' = updateIdea(idea).disk
    /\ storeCall' = <<[op |-> "updateIdea", id |-> idea.id]>>
    /\ UNCHANGED <<searchResults, lastPaperSearch, h, msgs, restarts, issued,
                   writeFailures, loadError, listed, rendered, chunked, mjVars>>

\* A caller looks a record up by id.
StoreFind(id) ==
    /\ storeCall' = <<[op |-> "getIdeaById", id |-> id, result |-> getIdeaById(id)]>>
    /\ UNCHANGED <<ideas, disk, searchResults, lastPaperSearch, h, msgs, restarts, issued,
                   writeFailures, loadError, listed, rendered, chunked, mjVars>>

\* A caller asks for the statistics.
StoreStats ==
    /\ storeCall' = <<[op |-> "getStats", result |-> getStats]>>
    /\ UNCHANGED <<ideas, disk, searchResults, lastPaperSearch, h, msgs, restarts, issued,
                   writeFailures, loadError, listed, rendered, chunked, mjVars>>

NextStore ==
    \/ \E channel \in ChannelNames, now \in Times, filed \in BOOLEAN :
           StoreAddIdea(channel, now, filed)
    \/ \E channel \in ChannelNames, now \in Times, author \in {undefined, Str("a")},
          filed \in BOOLEAN :
           StoreAddArticle(channel, now, author, filed)
    \/ \E outcome \in LoadOutcomes : StoreStart(outcome)
    \/ \E limit \in 0..MaxLimit, channel \in ChannelNames \cup {""} : StoreList(limit, channel)

SpecStore == Init /\ [][NextStore]_vars

\* The store of one process under the calls of its interface: appends,
\* updates and the three reads, in any order.
NextStoreCalls ==
    \/ \E channel \in ChannelNames, now \in Times, filed \in BOOLEAN :
           StoreAddIdea(channel, now, filed)
    \/ \E id \in CallIds, channel \in ChannelNames :
           StoreUpdate([id |-> id, channel |-> channel, type |-> "text",
                        createdAt |-> NewDate(0), filePath |-> Str("md")])
    \/ \E limit \in 0..MaxLimit, channel \in ChannelNames \cup {""} : StoreList(limit, channel)
    \/ \E id \in CallIds : StoreFind(id)
    \/ StoreStats

SpecStoreCalls == Init /\ [][NextStoreCalls]_vars

\* ------------------------------------------------------------------ tags
\* The strings of up to maxLen characters over an alphabet.
Strings(alphabet, maxLen) == UNION { [1..n -> alphabet] : n \in 0..maxLen }

\* The characters \s matches, of those used here.
Whitespace == {" "}

\* content.match(/#[^\s#]+/g): the matches from position k on, left to right,
\* each a "#" with the longest run of other non-space characters after it.
RECURSIVE matchTags(_, _)
matchTags(content, k) ==
    IF k > Len(content) THEN <<>>
    ELSE IF content[k] # "#" THEN matchTags(content, k + 1)
    ELSE LET ends == { e \in (k + 1)..Len(content) :
                          \A j \in (k + 1)..e : content[j] \notin Whitespace \cup {"#"} }
         IN IF ends = {} THEN matchTags(content, k + 1)
            ELSE LET e == CHOOSE e \in ends : \A x \in ends : x <= e
                 IN <<SubSeq(content, k, e)>> \o matchTags(content, e + 1)

\* IdeaManager.extractTags(content): the matches without their "#".
extractTags(content) ==
    LET matches == matchTags(content, 1)
    IN [k \in 1..Len(matches) |-> Tail(matches[k])]

\* String.prototype.trim.
RECURSIVE trim(_)
trim(s) ==
    IF s = <<>> THEN s
    ELSE IF Head(s) \in Whitespace THEN trim(Tail(s))
    ELSE IF s[Len(s)] \in Whitespace THEN trim(SubSeq(s, 1, Len(s) - 1))
    ELSE s

\* The tags summarizePaper returns for the keyword section of the answer:
\* split(','), trim, the empty ones dropped, brackets removed.
summaryTags(keywordsSection) ==
    LET parts == split(keywordsSection, {","}, FALSE)
        trimmed == [k \in 1..Len(parts) |-> trim(parts[k])]
        kept == SelectSeq(trimmed, LAMBDA tag : Len(tag) > 0)
    IN [k \in 1..Len(kept) |-> SelectSeq(kept[k], LAMBDA c : c \notin {"[", "]"})]

\* Message texts and summaries, keyword sections of a paper summary, and the
\* tag lists generateTags hands to addArticleIdea.
Contents == Strings({"#", "a", " "}, MaxContentLen)
Keywords == Strings({"a", ",", " "}, MaxContentLen)
TagLists == Strings({<<"a">>, <<"b">>}, MaxTags)

\* A record with its tags is pushed and saved.
PushTagged(newIdea) ==
    /\ Len(ideas) < MaxTagged
    /\ ideas' = Append(ideas, newIdea)
    /\ disk' = saveIdeas(ideas', TRUE)
    /\ UNCHANGED <<searchResults, lastPaperSearch, h, msgs, restarts, issued,
                   writeFailures, storeOut, mjVars>>

\* addIdea(channel, content, 'text').
TagsAddIdea(content) ==
    PushTagged([id |-> getNextId(ideas), type |-> "text", content |-> content,
                tags |-> extractTags(content)])

\* addArticleIdea(channel, url, articleData, summary, tags).
TagsAddArticle(summary, tags) ==
    LET allTags == Dedupe(tags \o extractTags(summary))
    IN PushTagged([id |-> getNextId(ideas), type |-> "article", content |-> summary,
                   tags |-> allTags])

\* addPaperIdea(paperData, summary) with the summary summarizePaper parsed.
TagsAddPaper(keywordsSection) ==
    PushTagged([id |-> getNextId(ideas), type |-> "paper", content |-> <<>>,
                tags |-> summaryTags(keywordsSection)])

NextTags ==
    \/ \E content \in Contents : TagsAddIdea(content)
    \/ \E summary \in Contents, tags \in TagLists : TagsAddArticle(summary, tags)
    \/ \E keywordsSection \in Keywords : TagsAddPaper(keywordsSection)

SpecTags == Init /\ [][NextTags]_vars

\* ----------------------------------------------------------- rendering
\* generateTimestamp() when new Date() reads now, "YYYYMMDD_HHMMSS" in local
\* time (date, hour and minute are the same for every reading in Times).
generateTimestamp(now) ==
    <<"2", "0", "2", "4", "0", "1", "0", "1", "_", "0", "0", "0", "0">>
        \o padStart(NumToString((now \div 1000) % 60), 2, "0")

formatDateTimeForDisplay(timestamp) ==
    slice(timestamp, 0, 4) \o <<"-">> \o slice(timestamp, 4, 6) \o <<"-">>
        \o slice(timestamp, 6, 8) \o <<" ">> \o slice(timestamp, 9, 11) \o <<":">>
        \o slice(timestamp, 11, 13) \o <<":">> \o slice(timestamp, 13, 15)

\* generatePaperMarkdown(idea, paper, summary) called when the clock reads
\* now: the parts of the template that vary.
generatePaperMarkdown(idea, paper, summary, now) ==
    LET timestamp == generateTimestamp(now)
        dateTime == formatDateTimeForDisplay(timestamp)
    IN [ fileName |-> <<"p", "a", "p", "e", "r", "_">> \o timestamp \o <<".", "m", "d">>,
         dateTime |-> dateTime,
         id |-> idea.id,
         paper |-> paper,
         summary |-> summary ]

\* The records and enrichment details a render is called with.
RenderIdeas == { [id |-> <<"0", "0", "1">>], [id |-> <<"0", "0", "2">>] }
RenderPapers == { PaperList(1, MaxPapers)[j] : j \in 1..MaxPapers }
RenderSummaries == {"summary A", "summary B"}

Render(idea, paper, summary, now) ==
    /\ Len(rendered) < MaxRenders
    /\ rendered' = Append(rendered, [idea |-> idea, paper |-> paper, summary |-> summary,
                                     text |-> generatePaperMarkdown(idea, paper, summary, now)])
    /\ UNCHANGED <<ideas, disk, searchResults, lastPaperSearch, h, msgs, restarts, issued,
                   writeFailures, loadError, listed, storeCall, chunked, mjVars>>

NextRender ==
    \E idea \in RenderIdeas, paper \in RenderPapers, summary \in RenderSummaries,
       now \in Times :
        Render(idea, paper, summary, now)

SpecRender == Init /\ [][NextRender]_vars

\* ------------------------------------------------------ splitMarkdown
\* The loop of splitMarkdown over the lines left, with currentChunk and the
\* chunks pushed so far; after the last line a non-empty currentChunk is pushed.
RECURSIVE splitLines(_, _, _, _)
splitLines(lines, maxLength, currentChunk, chunks) ==
    IF lines = <<>>
    THEN IF currentChunk # <<>> THEN Append(chunks, currentChunk) ELSE chunks
    ELSE LET line == Head(lines)
         IN IF Len(currentChunk) + Len(line) + 1 > maxLength
            THEN splitLines(Tail(lines), maxLength, line, Append(chunks, currentChunk))
            ELSE splitLines(Tail(lines), maxLength,
                            currentChunk \o (IF currentChunk # <<>> THEN <<"\n">> ELSE <<>>)
                                \o line,
                            chunks)

\* splitMarkdown(markdown, maxLength).
splitMarkdown(markdown, maxLength) ==
    splitLines(split(markdown, {"\n"}, FALSE), maxLength, <<>>, <<>>)

\* The documents handed to splitMarkdown.
Markdowns == Strings({"a", "\n"}, MaxDocLen)

\* handlePaperCommand cuts a document longer than one message into chunks.
Split(markdown, maxLength) ==
    /\ Len(markdown) > maxLength
    /\ chunked' = <<[markdown |-> markdown, maxLength |-> maxLength,
                     chunks |-> splitMarkdown(markdown, maxLength)]>>
    /\ UNCHANGED <<ideas, disk, searchResults, lastPaperSearch, h, msgs, restarts, issued,
                   writeFailures, loadError, listed, rendered, storeCall, mjVars>>

NextSplit ==
    \E markdown \in Markdowns, maxLength \in 1..MaxChunkLen : Split(markdown, maxLength)

SpecSplit == Init /\ [][NextSplit]_vars

\* -------------------------------------------------- midjourney channel
\* A message of the midjourney channel gets the next number; an upload's
\* request (its reply message) is named by the number of the upload.
MjReceived == mjMsgs < MaxMjMessages /\ mjMsgs' = mjMsgs + 1

MjDone(x) == mj' = mj \ {x}

\* An image or audio upload of user u: handleMidjourneyImage awaits its reply,
\* handleMidjourneyAudio its reply, the transcription, the prompt and two edits
\* (none of them touches imagePromptData).
MjUpload(u, type) ==
    /\ MjReceived
    /\ mj' = mj \cup {[kind |-> type, user |-> u, req |-> mjMsgs + 1, msg |-> mjMsgs + 1]}
    /\ UNCHANGED <<ideas, disk, searchResults, lastPaperSearch, h, msgs, restarts, issued,
                   writeFailures, storeOut, imagePromptData, timers>>

\* The awaited calls of an upload settle.  ok: the request is stored under
\* the author's id and its 30 s timer is started.  Otherwise a call rejected:
\* nothing is stored (the audio handler edits its reply with the error).
MjPrompted(x, ok) ==
    /\ x \in mj
    /\ x.kind \in {"image", "audio"}
    /\ MjDone(x)
    /\ IF ok
       THEN /\ imagePromptData' =
                  [imagePromptData EXCEPT ![x.user] =
                       <<[replyMessageId |-> x.req, type |-> x.kind]>>]
            /\ timers' = Append(timers, [user |-> x.user, reply |-> x.req])
       ELSE UNCHANGED <<imagePromptData, timers>>
    /\ UNCHANGED <<ideas, disk, searchResults, lastPaperSearch, h, msgs, restarts, issued,
                   writeFailures, storeOut, mjMsgs>>

\* User u sends "1".."4": handleAspectRatioSelection reads the author's
\* entry, returns when there is none, else awaits the fetch of the reply.
MjSelect(u) ==
    /\ MjReceived
    /\ mj' = IF imagePromptData[u] = <<>> THEN mj
             ELSE mj \cup {[kind |-> "select", user |-> u,
                            req |-> imagePromptData[u][1].replyMessageId,
                            msg |-> mjMsgs + 1]}
    /\ UNCHANGED <<ideas, disk, searchResults, lastPaperSearch, h, msgs, restarts, issued,
                   writeFailures, storeOut, imagePromptData, timers>>

\* The awaited calls of a selection settle.  cleaned: the handler reaches its
\* last statement, imagePromptData.delete(message.author.id).  Otherwise the
\* fetch (or the edit in the catch block) rejected and the handler ended
\* before it.
MjSelected(x, cleaned) ==
    /\ x \in mj
    /\ x.kind = "select"
    /\ MjDone(x)
    /\ imagePromptData' =
           IF cleaned THEN [imagePromptData EXCEPT ![x.user] = <<>>] ELSE imagePromptData
    /\ UNCHANGED <<ideas, disk, searchResults, lastPaperSearch, h, msgs, restarts, issued,
                   writeFailures, storeOut, timers, mjMsgs>>

\* The oldest timer fires (all run 30 s, so they fire in the order they were
\* set): if the author has an entry it is deleted and the timer's own reply
\* is edited to the timeout notice.
MjTimeout ==
    /\ timers # <<>>
    /\ timers' = Tail(timers)
    /\ imagePromptData' = [imagePromptData EXCEPT ![Head(timers).user] = <<>>]
    /\ UNCHANGED <<ideas, disk, searchResults, lastPaperSearch, h, msgs, restarts, issued,
                   writeFailures, storeOut, mj, mjMsgs>>

NextMidjourney ==
    \/ \E u \in Users, type \in {"image", "audio"} : MjUpload(u, type)
    \/ \E x \in mj, ok \in BOOLEAN : MjPrompted(x, ok)
    \/ \E u \in Users : MjSelect(u)
    \/ \E x \in mj, cleaned \in BOOLEAN : MjSelected(x, cleaned)
    \/ MjTimeout

SpecMidjourney == Init /\ [][NextMidjourney]_vars

\* ============================================================ properties
\* Reference semantics of a selection expression, by sets.
Separators == {",", " "}

\* The maximal separator-free stretches <<a, b>> of e.
Segments(e) ==
    { ab \in (1..Len(e)) \X (1..Len(e)) :
        /\ ab[1] <= ab[2]
        /\ \A k \in ab[1]..ab[2] : e[k] \notin Separators
        /\ ab[1] = 1 \/ e[ab[1] - 1] \in Separators
        /\ ab[2] = Len(e) \/ e[ab[2] + 1] \in Separators }

SegmentText(e) == { SubSeq(e, ab[1], ab[2]) : ab \in Segments(e) }

AllDigits(t) == t # <<>> /\ \A k \in 1..Len(t) : IsDigit(t[k])

DigitFree(t) == \A k \in 1..Len(t) : ~IsDigit(t[k])

RECURSIVE DecimalValue(_)
DecimalValue(t) ==
    IF t = <<>> THEN 0
    ELSE 10 * DecimalValue(SubSeq(t, 1, Len(t) - 1)) + DigitVal(t[Len(t)])

\* A decimal integer, with or without a minus sign.
IsIntToken(t) == AllDigits(t) \/ (t # <<>> /\ Head(t) = "-" /\ AllDigits(Tail(t)))

IntValue(t) == IF Head(t) = "-" THEN 0 - DecimalValue(Tail(t)) ELSE DecimalValue(t)

HyphenAt(t, k) ==
    /\ t[k] = "-"
    /\ AllDigits(SubSeq(t, 1, k - 1))
    /\ AllDigits(SubSeq(t, k + 1, Len(t)))

\* A range a-b of two decimal integers without sign.
IsRangeToken(t) == \E k \in 1..Len(t) : HyphenAt(t, k)

TokenPositions(t) ==
    IF IsIntToken(t) THEN {IntValue(t)}
    ELSE IF IsRangeToken(t)
    THEN LET k == CHOOSE k \in 1..Len(t) : HyphenAt(t, k)
         IN DecimalValue(SubSeq(t, 1, k - 1))..DecimalValue(SubSeq(t, k + 1, Len(t)))
    ELSE {}

\* e consists of integers and ranges a-b only.
WellFormed(e) == \A t \in SegmentText(e) : IsIntToken(t) \/ IsRangeToken(t)

MathSelection(e, n) == (UNION { TokenPositions(t) : t \in SegmentText(e) }) \cap (1..n)

SortedSeqOf(S) ==
    [k \in 1..Cardinality(S) |-> CHOOSE x \in S : Cardinality({y \in S : y < x}) = k - 1]

\* e yields no position in 1..n: it is empty, or each token is free of digits
\* or an integer or range lying outside 1..n.
NoPosition(e, n) ==
    /\ \A t \in SegmentText(e) : IsIntToken(t) \/ IsRangeToken(t) \/ DigitFree(t)
    /\ MathSelection(e, n) = {}

ItemPcs == {"summarize", "paperObsidian", "vaultChannel", "vaultSend"}
LoopPcs == ItemPcs \cup {"progressEdit", "delay"}
ReportPcs == {"resultEdit", "react"}
ParsedPcs == {"processingSend", "replyNoSelection"}

Nums(entries) == { entries[k].num : k \in 1..Len(entries) }
Elems(xs) == { xs[k] : k \in 1..Len(xs) }
EntriesFor(entries, num) == { k \in 1..Len(entries) : entries[k].num = num }

\* C1: in a paper-select batch a failure at one position (paper not
\* resolvable, or summarization throwing) is recorded as a failure entry and
\* the batch goes on: a rejected summarization leaves the handler in the loop
\* (pausing before the next position) or, only when it was the last position,
\* at the report; and a batch at its report has attempted every selected
\* position (summarizePaper called, or the position recorded as unresolvable).
C1_AllAttempted ==
    \A p \in Handlers :
        h[p].pc \in ReportPcs =>
            \A k \in 1..Len(h[p].validNumbers) :
                LET num == h[p].validNumbers[k]
                IN \/ num \in Elems(h[p].enriched)
                   \/ FailedSelect(num) \in Elems(h[p].failedPapers)

C1_FailureStep(p) ==
    /\ h[p].pc = "summarize"
    /\ restarts' = restarts
    /\ h'[p].pc \notin {"summarize", "paperObsidian"}

C1_FailureIsolated ==
    \A p \in Handlers :
        C1_FailureStep(p) =>
            LET num == h[p].validNumbers[h[p].i + 1]
            IN /\ \E k \in 1..Len(h'[p].failedPapers) :
                      /\ h'[p].failedPapers[k].num = num
                      /\ h'[p].failedPapers[k].error = "summary"
               /\ h'[p].pc \in {"delay", "resultEdit"}
               /\ h'[p].pc = "resultEdit" => h[p].i + 1 = Len(h[p].validNumbers)

C1_NoEarlyTermination == []C1_AllAttempted /\ [][C1_FailureIsolated]_vars

C1_Witness ==
    \E p \in Handlers :
        /\ h[p].pc = "resultEdit"
        /\ Len(h[p].validNumbers) = 2
        /\ h[p].failedPapers # <<>>
        /\ h[p].failedPapers[1].num = h[p].validNumbers[1]
        /\ h[p].failedPapers[1].error = "summary"
        /\ h[p].validNumbers[2] \in Elems(h[p].enriched)

\* C2: at the report of a batch the number of records the batch appended
\* equals its number of successes, and no item reported as failed has a record.
C2_AppendedEqualsSuccesses ==
    \A p \in Handlers :
        h[p].pc \in ReportPcs => Len(h[p].appended) = Len(h[p].successfulPapers)

\* C3: at the report of a batch every selected position has exactly one entry,
\* in the success list or in the failure list, so the two counts add up to the
\* size of the validated selection.
C3_EveryPositionCounted ==
    \A p \in Handlers :
        h[p].pc \in ReportPcs =>
            /\ Len(h[p].successfulPapers) + Len(h[p].failedPapers) = Len(h[p].validNumbers)
            /\ \A k \in 1..Len(h[p].validNumbers) :
                   Cardinality(EntriesFor(h[p].successfulPapers, h[p].validNumbers[k]))
                   + Cardinality(EntriesFor(h[p].failedPapers, h[p].validNumbers[k])) = 1

C3_Witness ==
    \E p \in Handlers :
        /\ h[p].pc = "resultEdit"
        /\ Len(h[p].successfulPapers) = 1
        /\ Len(h[p].failedPapers) = 1

\* C4: for a selection expression made of integers and ranges a-b only, parsed
\* against a list of count papers, validNumbers is the ascending duplicate-free
\* sequence of the integers of the listed singletons and ranges that lie in
\* 1..count.
C4_ParsedSelection ==
    \A p \in Handlers :
        (h[p].pc \in ParsedPcs /\ WellFormed(h[p].selections)) =>
            h[p].validNumbers = SortedSeqOf(MathSelection(h[p].selections, h[p].count))

C4_Witness ==
    \E p \in Handlers :
        /\ h[p].pc = "processingSend"
        /\ h[p].selections = <<"2", "-", "3", ",", "1", "-", "2">>
        /\ h[p].count = 2
        /\ h[p].validNumbers = <<1, 2>>

\* C5: when the expression yields no position in 1..count (it is empty, has
\* only tokens without digits, or only numbers outside the list), the select
\* command ends with a reply: no batch starts, summarizePaper is not called
\* and no record is appended by it.
C5_NoSelectionFailsFast ==
    \A p \in Handlers :
        (h[p].pc \in ParsedPcs \cup {"replyUsage"} /\ NoPosition(h[p].selections, h[p].count)) =>
            /\ h[p].pc \in {"replyNoSelection", "replyUsage"}
            /\ h[p].validNumbers = <<>>
            /\ h[p].enriched = <<>>
            /\ h[p].appended = <<>>

C5_Witness ==
    \E p \in Handlers :
        /\ h[p].pc = "replyNoSelection"
        /\ h[p].selections = <<"0", ",", "7">>
        /\ h[p].count = 2

\* C6: over the lifetime of the store, restarts included, the ids handed out
\* are strictly increasing, so no two records carry the same id.
C6_IdsStrictlyIncreasing ==
    \A a \in 1..Len(issued) : \A b \in 1..Len(issued) :
        a < b => NumOf(parseInt(issued[a])) < NumOf(parseInt(issued[b]))

\* C7: N appends in a row on the empty store assign the ids 1..N in order,
\* written in decimal with zeros in front up to three digits.
Zeros(n) == [k \in 1..n |-> "0"]

PaddedDecimal(n) ==
    LET d == NumToString(n)
    IN IF Len(d) >= 3 THEN d ELSE Zeros(3 - Len(d)) \o d

C7_SequentialIds ==
    /\ Len(issued) = Len(ideas)
    /\ \A k \in 1..Len(ideas) :
           /\ ideas[k].id = PaddedDecimal(k)
           /\ issued[k] = ideas[k].id
           /\ DecimalValue(ideas[k].id) = k

C7_Witness ==
    /\ Len(ideas) = 1000
    /\ ideas[9].id = <<"0", "0", "9">>
    /\ ideas[999].id = <<"9", "9", "9">>
    /\ ideas[1000].id = <<"1", "0", "0", "0">>

\* C8: when the rewrite of ideas.json fails during an append, the in-memory
\* collection is back in its pre-append state after the call.
C8_FailedRewriteRollsBack ==
    [][(writeFailures' > writeFailures /\ issued' # issued) => ideas' = ideas]_vars

\* C9: wherever a reader can run (between any two handler steps), every record
\* of the in-memory collection is in the persisted collection.
C9_MemoryWithinPersisted ==
    \A k \in 1..Len(ideas) : \E j \in 1..Len(disk) : disk[j] = ideas[k]

\* C10: positions are processed in ascending order: while summarizePaper runs
\* (or its record is being stored and posted) for a position, every smaller
\* selected position already has its entry, no larger one has been touched,
\* and the positions enriched so far are strictly ascending.
C10_AscendingOrder ==
    \A p \in Handlers :
        /\ \A a \in 1..Len(h[p].enriched) : \A b \in 1..Len(h[p].enriched) :
               a < b => h[p].enriched[a] < h[p].enriched[b]
        /\ h[p].pc \in ItemPcs =>
               LET num == h[p].validNumbers[h[p].i + 1]
                   done == Nums(h[p].successfulPapers) \cup Nums(h[p].failedPapers)
               IN /\ h[p].enriched[Len(h[p].enriched)] = num
                  /\ \A v \in Elems(h[p].validNumbers) : v < num <=> v \in done

C10_Witness ==
    \E p \in Handlers :
        /\ h[p].pc = "summarize"
        /\ h[p].validNumbers = <<1, 2>>
        /\ h[p].i = 1
        /\ h[p].enriched = <<1, 2>>

\* C11: the outcome a batch reports holds its entries, successes and failures
\* together, in the order of the selection: read in the order the report
\* gives them (the saved papers, then the failures), the positions are the
\* validated selection.
ReportedPositions(hr) ==
    resultEmbed(hr).saved \o [k \in 1..Len(hr.failedPapers) |-> hr.failedPapers[k].num]

C11_ReportInInputOrder ==
    \A p \in Handlers :
        h[p].pc \in ReportPcs => ReportedPositions(h[p]) = h[p].validNumbers

\* C12: a batch starts a position other than its first only when the 1 s timer
\* has just fired, one position at a time, whatever happened to the position
\* before; and it never waits after the last position.
C12_Begun(p) ==
    { j \in (h[p].i + 1)..h'[p].i : j < Len(h[p].validNumbers) }

C12_DelayBeforeEach ==
    \A p \in Handlers :
        (h[p].pc \in LoopPcs \cup {"processingSend"} /\ h'[p].pc # "idle") =>
            \A j \in C12_Begun(p) : h[p].pc = "delay" /\ j = h[p].i + 1

C12_NoDelayAfterLast ==
    \A p \in Handlers :
        h[p].pc = "delay" => h[p].i < Len(h[p].validNumbers) - 1

C12_DelayBetweenPositions == []C12_NoDelayAfterLast /\ [][C12_DelayBeforeEach]_vars

\* C13: within one batch summarizePaper is called at most once for a selected
\* position, and only for selected positions: a position whose summarization
\* failed is not tried again.
C13_EnrichedAtMostOnce ==
    \A p \in Handlers :
        /\ \A a \in 1..Len(h[p].enriched) : \A b \in 1..Len(h[p].enriched) :
               a # b => h[p].enriched[a] # h[p].enriched[b]
        /\ Elems(h[p].enriched) \subseteq Elems(h[p].validNumbers)
        /\ \A k \in 1..Len(h[p].failedPapers) :
               h[p].failedPapers[k].error = "summary" =>
                   Cardinality({a \in 1..Len(h[p].enriched) :
                                   h[p].enriched[a] = h[p].failedPapers[k].num}) = 1

C13_Witness ==
    \E p \in Handlers :
        /\ h[p].pc = "react"
        /\ h[p].enriched = <<1, 2>>
        /\ Len(h[p].failedPapers) = 2
        /\ \A k \in 1..2 : h[p].failedPapers[k].error = "summary"

\* C14: for the whole of a batch the paper resolved for a position is the
\* element at that position of the list the selection was validated against,
\* whatever other handlers do in between.
C14_CandidateListFixed ==
    \A p \in Handlers :
        /\ h[p].pc \in LoopPcs /\ h[p].pc # "delay" =>
               h[p].selectedPaper = h[p].validated[h[p].validNumbers[h[p].i + 1]]
        /\ \A k \in 1..Len(h[p].successfulPapers) :
               h[p].successfulPapers[k].paper = h[p].validated[h[p].successfulPapers[k].num]
        /\ \A k \in 1..Len(h[p].failedPapers) :
               h[p].failedPapers[k].paper = h[p].validated[h[p].failedPapers[k].num]

\* C15: a range a-b with a > b gives no position and no error: an expression
\* of integers, ranges and digit-free tokens parses to the positions of its
\* other tokens, as if the reversed ranges were not there.
ReversedRange(t) ==
    /\ IsRangeToken(t)
    /\ LET k == CHOOSE k \in 1..Len(t) : HyphenAt(t, k)
       IN DecimalValue(SubSeq(t, 1, k - 1)) > DecimalValue(SubSeq(t, k + 1, Len(t)))

OtherPositions(e, n) ==
    (UNION { TokenPositions(t) : t \in { u \in SegmentText(e) : ~ReversedRange(u) } })
        \cap (1..n)

C15_ReversedRangeIsEmpty ==
    \A p \in Handlers :
        ( /\ h[p].pc \in ParsedPcs
          /\ \E t \in SegmentText(h[p].selections) : ReversedRange(t)
          /\ \A t \in SegmentText(h[p].selections) :
                 IsIntToken(t) \/ IsRangeToken(t) \/ DigitFree(t) ) =>
            /\ h[p].validNumbers = SortedSeqOf(OtherPositions(h[p].selections, h[p].count))
            /\ h[p].pc = "processingSend" <=> OtherPositions(h[p].selections, h[p].count) # {}

C15_Witness ==
    \E p \in Handlers :
        /\ h[p].pc = "processingSend"
        /\ h[p].selections = <<"3", "-", "1", ",", "1">>
        /\ h[p].count = 2
        /\ h[p].validNumbers = <<1>>

\* C16: a token that is not an integer, and a range with an end that is not
\* an integer, give no position: an expression holding such a token parses to
\* the positions of its integers and ranges alone.
C16_NonIntegerTokenDropped ==
    \A p \in Handlers :
        (h[p].pc \in ParsedPcs /\ ~WellFormed(h[p].selections)) =>
            h[p].validNumbers = SortedSeqOf(MathSelection(h[p].selections, h[p].count))

Field(obj, key) == IF key \in DOMAIN obj THEN obj[key] ELSE undefined

SameObject(x, y, keys) == \A key \in Elems(keys) : Field(x, key) = Field(y, key)

SameRecord(x, y) ==
    /\ SameObject(x, y, SelectSeq(IdeaKeys, LAMBDA key : key # "articleData"))
    /\ ("articleData" \in DOMAIN x) = ("articleData" \in DOMAIN y)
    /\ "articleData" \in DOMAIN x \cap DOMAIN y =>
           SameObject(x.articleData, y.articleData, ArticleKeys)

C18_RoundTrip ==
    [][(restarts' > restarts /\ ~loadError' /\ disk = JSONstringify(ideas) /\ disk' = disk) =>
           /\ Len(ideas') = Len(ideas)
           /\ \A k \in 1..Len(ideas) : SameRecord(ideas'[k], ideas[k])]_vars

\* C19: two render calls with the same record and the same enrichment detail
\* give the same text, whenever they are made.
C19_RenderDeterministic ==
    \A a \in 1..Len(rendered) : \A b \in 1..Len(rendered) :
        ( /\ rendered[a].idea = rendered[b].idea
          /\ rendered[a].paper = rendered[b].paper
          /\ rendered[a].summary = rendered[b].summary ) =>
            rendered[a].text = rendered[b].text

\* C20: getRecentIdeas(limit, channel) returns records of the collection that
\* match the filter (all of them without a filter), each once, from newest to
\* oldest createdAt, limit of them or all that match if fewer, and no record
\* left out is newer than one returned.
Matching(channel) == { k \in 1..Len(ideas) : channel = "" \/ ideas[k].channel = channel }

RecentResult(call) ==
    LET r == call.result
        m == Matching(call.channel)
    IN /\ Len(r) = IF call.limit < Cardinality(m) THEN call.limit ELSE Cardinality(m)
       /\ \A j \in 1..Len(r) : \E k \in m : r[j] = ideas[k]
       /\ \A a \in 1..Len(r) : \A b \in 1..Len(r) :
              a < b => /\ r[a] # r[b]
                       /\ getTime(r[a].createdAt) >= getTime(r[b].createdAt)
       /\ \A k \in m :
              (\A j \in 1..Len(r) : r[j] # ideas[k]) =>
                  \A j \in 1..Len(r) : getTime(r[j].createdAt) >= getTime(ideas[k].createdAt)

C20_RecentIdeas ==
    [][(listed' # listed /\ listed' # <<>>) => RecentResult(listed'[1])]_vars

C20_Witness ==
    /\ listed # <<>>
    /\ listed[1].limit = 1
    /\ listed[1].channel = "papers"
    /\ Len(ideas) = 2
    /\ \A k \in 1..2 : ideas[k].channel = "papers"
    /\ getTime(ideas[1].createdAt) > getTime(ideas[2].createdAt)
    /\ listed[1].result = <<ideas[1]>>

\* C24: a record's filePath is set, and written to the file, only when the
\* record's Obsidian document has been written (the awaited save resolved);
\* when that save rejects the record stays in the collection without a
\* filePath and the append returns it to its caller.
ObsidianPcs == {"paperObsidian", "textObsidian"}

C24_PathOnlyAfterDocument ==
    /\ [](\A p \in Handlers :
              h[p].pc \in ObsidianPcs => ~ideas[h[p].newIdea].filePath)
    /\ [](restarts = 0 =>
              \A k \in 1..Len(disk) : disk[k].filePath => ideas[k].filePath)
    /\ [][restarts' = restarts =>
              \A k \in 1..Len(ideas') :
                  (ideas'[k].filePath /\ (k > Len(ideas) \/ ~ideas[k].filePath)) =>
                      \E p \in Handlers :
                          /\ h[p].pc \in ObsidianPcs
                          /\ h[p].newIdea = k
                          /\ h'[p].pc \notin ObsidianPcs]_vars
    /\ [][\A p \in Handlers :
              ( /\ h[p].pc \in ObsidianPcs
                /\ h'[p] # h[p]
                /\ restarts' = restarts
                /\ ideas' = ideas ) =>
                  /\ h'[p].pc \in {"vaultChannel", "reply"}
                  /\ ~ideas'[h[p].newIdea].filePath
                  /\ disk' = disk]_vars

C24_Witness ==
    /\ restarts = 0
    /\ \A p \in Handlers : h[p].pc = "idle"
    /\ Len(ideas) = 2
    /\ ideas[1].filePath
    /\ ~ideas[2].filePath
    /\ disk = ideas

\* C25: every awaited call of a batch settles (each resolves or rejects in
\* one step of the model), so a batch goes on to its final report exactly when
\* no settling call takes its handler out of the loop: a handler inside the
\* loop stays in the loop or moves to the report, and at the report every
\* selected position has been attempted exactly once.
C25_AttemptedOnce(hr) ==
    \A k \in 1..Len(hr.validNumbers) :
        LET num == hr.validNumbers[k]
        IN Cardinality(EntriesFor(hr.successfulPapers, num))
             + Cardinality(EntriesFor(hr.failedPapers, num)) = 1

C25_BatchReachesReport ==
    /\ [](\A p \in Handlers : h[p].pc \in ReportPcs => C25_AttemptedOnce(h[p]))
    /\ [][\A p \in Handlers :
              (h[p].pc \in LoopPcs /\ restarts' = restarts) =>
                  h'[p].pc \in LoopPcs \cup ReportPcs]_vars

\* C26: when the appends of several handlers interleave at their awaits, then
\* once every append has returned the file holds the collection in memory,
\* which holds every appended record exactly once, in the order of the ids
\* handed out, each with the filePath it ended with.
C26_AllReturned == \A p \in Handlers : h[p].pc \notin ObsidianPcs

C26_InterleavedAppendsPersisted ==
    (restarts = 0 /\ C26_AllReturned) =>
        /\ [k \in 1..Len(ideas) |-> ideas[k].id] = issued
        /\ \A a \in 1..Len(ideas) : \A b \in 1..Len(ideas) :
               ideas[a].id = ideas[b].id => a = b
        /\ disk = ideas

\* C27: whenever a select command passes the same-channel check, the list
\* that bounds the selection (lastPaperSearch.papers) and the list positions
\* are resolved from (ArxivService.searchResults) are the same list, so every
\* validated position resolves to a paper.
C27_PassedChannelCheck(p) == h[p].pc = "idle" /\ h'[p].pc \in ParsedPcs

C27_ListsAgree ==
    [][\A p \in Handlers :
           C27_PassedChannelCheck(p) =>
               /\ lastPaperSearch[1].papers = searchResults
               /\ \A k \in 1..Len(h'[p].validNumbers) :
                      getSearchResult(h'[p].validNumbers[k] - 1) # NoPaper]_vars

\* C21: updateIdea with an id that no record of the collection has changes
\* neither the collection in memory nor the file.
C21_UpdateOfUnknownId ==
    /\ storeCall' # storeCall
    /\ storeCall'[1].op = "updateIdea"
    /\ \A k \in 1..Len(ideas) : ideas[k].id # storeCall'[1].id

C21_UnknownIdIsNoOp ==
    [][C21_UpdateOfUnknownId => (ideas' = ideas /\ disk' = disk)]_vars

C21_Witness ==
    /\ storeCall = <<[op |-> "updateIdea", id |-> <<"0", "0", "3">>]>>
    /\ Len(ideas) = 2
    /\ \A k \in 1..2 : ideas[k].channel = "ideas" /\ ideas[k].id # <<"0", "0", "3">>
    /\ disk = JSONstringify(ideas)

\* C28: getRecentIdeas, getIdeaById and getStats leave the collection, the
\* order of its records and the file as they are, so that after any mix of
\* reads and appends the k-th record appended is the k-th record in memory
\* and the next id handed out is one more than the id of the record appended
\* last.
C28_ReadStep ==
    \/ listed' # listed
    \/ storeCall' # storeCall /\ storeCall'[1].op \in {"getIdeaById", "getStats"}

C28_InAppendOrder ==
    /\ \A k \in 1..Len(ideas) : ideas[k].id = PaddedDecimal(k)
    /\ getNextId(ideas) = PaddedDecimal(Len(ideas) + 1)

C28_ReadsLeaveStore ==
    /\ []C28_InAppendOrder
    /\ [][C28_ReadStep => (ideas' = ideas /\ disk' = disk)]_vars

C28_Witness ==
    /\ listed # <<>>
    /\ listed[1].channel = ""
    /\ Len(listed[1].result) = 2
    /\ Len(ideas) = 2
    /\ listed[1].result = <<ideas[2], ideas[1]>>
    /\ getTime(ideas[1].createdAt) < getTime(ideas[2].createdAt)
    /\ storeCall # <<>>
    /\ storeCall[1].op = "getStats"
    /\ storeCall[1].result.total = 2

\* C23: in every store state no record holds the same tag twice, whichever of
\* addIdea, addArticleIdea and addPaperIdea made the record.
C23_NoDuplicate(tags) ==
    \A a \in 1..Len(tags) : \A b \in 1..Len(tags) : tags[a] = tags[b] => a = b

C23_TagsDeduplicated == \A k \in 1..Len(ideas) : C23_NoDuplicate(ideas[k].tags)

\* C22: the chunks of splitMarkdown partition the lines of the document: read
\* one after the other, the lines of the chunks are the lines of the document,
\* each once and in order (blank lines included).
C22_LinesOf(chunks) == Flatten([k \in 1..Len(chunks) |-> split(chunks[k], {"\n"}, FALSE)])

C22_ChunksPartitionLines ==
    chunked # <<>> =>
        C22_LinesOf(chunked[1].chunks) = split(chunked[1].markdown, {"\n"}, FALSE)

\* C30: for a document whose lines are each at most maxLength characters
\* long, every chunk of splitMarkdown has between 1 and maxLength characters.
C30_LinesFit(call) ==
    LET lines == split(call.markdown, {"\n"}, FALSE)
    IN \A k \in 1..Len(lines) : Len(lines[k]) <= call.maxLength

C30_ChunkLengths ==
    (chunked # <<>> /\ C30_LinesFit(chunked[1])) =>
        \A k \in 1..Len(chunked[1].chunks) :
            /\ Len(chunked[1].chunks[k]) >= 1
            /\ Len(chunked[1].chunks[k]) <= chunked[1].maxLength

\* C29: a user's pending aspect-ratio request leaves imagePromptData only
\* through that request's own number selection or its own 30 s timer: the
\* timer of an earlier upload of the user never removes a later request.
C29_Removed(u) == imagePromptData[u] # <<>> /\ imagePromptData'[u] = <<>>

C29_ByOwnTimer(r) ==
    /\ timers # <<>>
    /\ timers' = Tail(timers)
    /\ Head(timers).reply = r

C29_ByOwnSelection(r) ==
    \E x \in mj : x \notin mj' /\ x.kind = "select" /\ x.req = r

C29_RemovedByOwnRequestOnly ==
    [][\A u \in Users :
           C29_Removed(u) =>
               LET r == imagePromptData[u][1].replyMessageId
               IN C29_ByOwnTimer(r) \/ C29_ByOwnSelection(r)]_vars

====
